---- MODULE Spec2Model ----
(***************************************************************************)
(* Model of the backtest engine of src/services/backtesting.py:            *)
(* BacktestEngine.run_backtest and the methods it calls, on one thread     *)
(* and on two threads of one process; of RiskManager.validate_new_trade    *)
(* of src/services/trading_engine.py; and of the RateLimiter of            *)
(* src/services/exchange_api.py.                                           *)
(*                                                                         *)
(* Python floats are modelled as exact rationals [num, den] in lowest      *)
(* terms (den > 0), so every equality and comparison below is the one of   *)
(* the real numbers the floats approximate.                                *)
(***************************************************************************)
EXTENDS Integers, Sequences, FiniteSets, TLC

VARIABLES
    feed,            \* the bars the exchange returns for the request
    data_cache,      \* HistoricalDataManager.data_cache[cache_key]; <<>> when absent
    config,          \* strategy_config
    initial_balance, \* run_backtest's initial_balance argument
    run,             \* which call of run_backtest on this engine (1, 2)
    pc,              \* position of run_backtest: start, loop, done, error
    data,            \* the DataFrame of the current run
    i,               \* number of rows the loop has consumed
    balance,         \* local balance
    positions,       \* local positions dict: symbol -> position
    trades,          \* local trades list
    equity_curve,    \* local equity_curve list
    historical_data, \* the frame last passed to the signal generator
    signal,          \* the signal of the last row
    trade_result,    \* what _execute_backtest_trade returned for the last row
    result,          \* the BacktestResult returned (None before, and on error)
    first_result,    \* the BacktestResult of the first call, kept by the caller
    rng,             \* numpy's global generator: values drawn since the last seed(42)
    workers,         \* the runs executed on worker threads: thread -> its locals
    account,         \* the Account row handed to RiskManager.validate_new_trade
    trade_symbol,    \* the symbol handed to RiskManager.validate_new_trade
    position_table,  \* the rows of the positions table
    trade_table,     \* the rows of the trades table
    risk_check,      \* what validate_new_trade returned (None before the call)
    max_calls,       \* RateLimiter.max_calls
    time_window,     \* RateLimiter.time_window
    calls,           \* RateLimiter.calls
    clock,           \* time.time(), in seconds since the limiter was built
    started          \* the times at which the wrapped function started to execute

vars == <<feed, data_cache, config, initial_balance, run, pc, data, i, balance,
          positions, trades, equity_curve, historical_data, signal,
          trade_result, result, first_result, rng, workers,
          account, trade_symbol, position_table, trade_table, risk_check,
          max_calls, time_window, calls, clock, started>>

\* the variables of the runs on worker threads
parallel_vars == <<rng, workers>>

\* the variables of the risk manager and of the rate limiter
service_vars == <<account, trade_symbol, position_table, trade_table, risk_check,
                  max_calls, time_window, calls, clock, started>>

\* Python's None, where a dict or a result object is expected
None == [none |-> TRUE]

\* no risk validation has been requested and no rate limiter has been built
services_idle ==
    /\ account = None
    /\ trade_symbol = ""
    /\ position_table = <<>>
    /\ trade_table = <<>>
    /\ risk_check = None
    /\ max_calls = 0
    /\ time_window = 0
    /\ calls = <<>>
    /\ clock = 0
    /\ started = <<>>

----------------------------------------------------------------------------
(* Bounds of the model *)

\* rows before the free tail of a long series (all at the same close)
BaseLen == 49
\* rows whose close is chosen freely
MaxTail == 3
\* calls of run_backtest on one engine
MaxRuns == 2
\* rows of the positions table and of the trades table
MaxRows == 2
\* the latest time, in seconds, at which a rate-limited call is made
MaxClock == 6

\* the closes a row may carry
Prices == {10, 100, 200}

----------------------------------------------------------------------------
(* Exact arithmetic standing for the float arithmetic of the code *)

Abs(x) == IF x < 0 THEN -x ELSE x

RECURSIVE GCD(_, _)
GCD(a, b) == IF b = 0 THEN a ELSE GCD(b, a % b)

Rat(n, d) ==
    LET g == GCD(Abs(n), Abs(d))
        s == IF d < 0 THEN -1 ELSE 1
    IN  [num |-> s * (n \div g), den |-> s * (d \div g)]

R(n) == [num |-> n, den |-> 1]

Zero == R(0)

RNeg(a) == [num |-> -a.num, den |-> a.den]

RAdd(a, b) ==
    LET g == GCD(a.den, b.den)
        l == a.den * (b.den \div g)
    IN  Rat(a.num * (l \div a.den) + b.num * (l \div b.den), l)

RSub(a, b) == RAdd(a, RNeg(b))

RMul(a, b) ==
    LET g1 == GCD(Abs(a.num), b.den)
        g2 == GCD(Abs(b.num), a.den)
    IN  Rat((a.num \div g1) * (b.num \div g2), (a.den \div g2) * (b.den \div g1))

\* b # 0: every division of the code modelled here is guarded or has a
\* nonzero divisor for the inputs of the model
RDiv(a, b) == RMul(a, Rat(b.den, b.num))

RLt(a, b) == a.num * b.den < b.num * a.den

RLe(a, b) == a.num * b.den <= b.num * a.den

RGt(a, b) == RLt(b, a)

RAbs(a) == [num |-> Abs(a.num), den |-> a.den]

RECURSIVE RSum(_)
RSum(s) == IF s = <<>> THEN Zero ELSE RAdd(Head(s), RSum(Tail(s)))

RECURSIVE SumInt(_)
SumInt(s) == IF s = <<>> THEN 0 ELSE Head(s) + SumInt(Tail(s))

Last(s, n) == SubSeq(s, Len(s) - n + 1, Len(s))

----------------------------------------------------------------------------
(* Inputs *)

Symbol == "BTCUSDT"

\* strategy_config values: risk_percentage 1.0 and 2.0 (the sweep of
\* routes/backtesting.py:258 uses 0.5 .. 2.0), commission_rate 0 and 10%
Configs ==
    { [symbol |-> Symbol, risk_percentage |-> R(rp), commission_rate |-> cr] :
        rp \in {1, 2}, cr \in {Zero, Rat(1, 10)} }

InitialBalances == {R(1000)}

\* rows of the frame: the index (timestamp) and the close column; the other
\* columns are never read by the engine
Bar(t, c) == [timestamp |-> t, close |-> c]

RECURSIVE Seqs(_, _)
Seqs(S, n) ==
    IF n = 0 THEN {<<>>}
    ELSE {Append(s, x) : s \in Seqs(S, n - 1), x \in S}

\* a long flat history, so that both moving averages are defined
Base == [k \in 1..BaseLen |-> 100]

\* the windows of the two moving averages (lines 236-237)
FastWindow == 20
SlowWindow == 50

\* a flat history one row short of the fast window: the rows after it are
\* decided with the fast average alone
WarmUp == [k \in 1..(FastWindow - 1) |-> 100]

Closes ==
    UNION { {b \o t : t \in Seqs(Prices, n)} : n \in 0..MaxTail, b \in {<<>>, WarmUp, Base} }

\* the index of a frame is strictly increasing
Frame(cs) == [k \in 1..Len(cs) |-> Bar(k, cs[k])]

Frames == {Frame(cs) : cs \in Closes}

----------------------------------------------------------------------------
(* HistoricalDataManager *)

\* get_historical_data: a cached frame is returned as is; otherwise the rows
\* obtained for the request are returned, and cached when the exchange
\* answered with rows (line 87)
get_historical_data(cache, klines) ==
    IF cache # <<>>
    THEN [frame |-> cache, cache |-> cache]
    ELSE [frame |-> klines, cache |-> klines]

----------------------------------------------------------------------------
(* BacktestEngine *)

R98 == Rat(98, 100)
R102 == Rat(102, 100)
R104 == Rat(104, 100)
R96 == Rat(96, 100)
R95 == Rat(95, 100)

\* variant: only `data is None` is tested, so an empty frame passes
data_unavailable_none_only(d) == FALSE

\* data is None or data.empty (the manager never returns None)
data_unavailable(d) == Len(d) = 0

\* variant: the whole frame is passed instead of data.loc[:timestamp]
loc_slice_whole(d, timestamp) == d

\* data.loc[:timestamp] on a sorted index: every row whose label is at most
\* timestamp
loc_slice(d, timestamp) == SelectSeq(d, LAMBDA row : row.timestamp <= timestamp)

close_prices(historical) == [k \in 1..Len(historical) |-> historical[k].close]

\* variant: the mean of all the closes
rolling_mean_all(cl, n) == Rat(SumInt(cl), Len(cl))

\* close_prices.rolling(n).mean().iloc[-1], for len(close_prices) >= n
rolling_mean_last(cl, n) == Rat(SumInt(Last(cl, n)), n)

\* variant: the slow average is taken over the closes there are when there
\* are fewer than 50 (no fallback to the fast average)
generate_backtest_signal_partial_slow(current_data, historical, cfg) ==
    IF Len(historical) < FastWindow THEN None
    ELSE
        LET cl == close_prices(historical)
            sma_20 == rolling_mean_last(cl, FastWindow)
            sma_50 == IF Len(cl) >= SlowWindow
                      THEN rolling_mean_last(cl, SlowWindow)
                      ELSE rolling_mean_last(cl, Len(cl))
            current_price == R(current_data.close)
        IN  IF RGt(current_price, sma_20) /\ RGt(sma_20, sma_50)
            THEN [action |-> "BUY",
                  entry_price |-> current_price,
                  stop_loss |-> RMul(current_price, R98),
                  take_profit |-> RMul(current_price, R104)]
            ELSE IF RLt(current_price, sma_20) /\ RLt(sma_20, sma_50)
            THEN [action |-> "SELL",
                  entry_price |-> current_price,
                  stop_loss |-> RMul(current_price, R102),
                  take_profit |-> RMul(current_price, R96)]
            ELSE None

generate_backtest_signal(current_data, historical, cfg) ==
    IF Len(historical) < FastWindow THEN None
    ELSE
        LET cl == close_prices(historical)
            sma_20 == rolling_mean_last(cl, FastWindow)
            sma_50 == IF Len(cl) >= SlowWindow
                      THEN rolling_mean_last(cl, SlowWindow)
                      ELSE sma_20
            current_price == R(current_data.close)
        IN  IF RGt(current_price, sma_20) /\ RGt(sma_20, sma_50)
            THEN [action |-> "BUY",
                  entry_price |-> current_price,
                  stop_loss |-> RMul(current_price, R98),
                  take_profit |-> RMul(current_price, R104)]
            ELSE IF RLt(current_price, sma_20) /\ RLt(sma_20, sma_50)
            THEN [action |-> "SELL",
                  entry_price |-> current_price,
                  stop_loss |-> RMul(current_price, R102),
                  take_profit |-> RMul(current_price, R96)]
            ELSE None

\* variant: lines 287-289 (the cap) left out
position_size_uncapped(bal, price, price_risk, risk_percentage) ==
    LET risk_amount == RMul(bal, RDiv(risk_percentage, R(100)))
        quantity == RDiv(risk_amount, price_risk)
    IN  [quantity |-> quantity, position_value |-> RMul(quantity, price)]

\* lines 276-289: the risk-based quantity and its 95% cap
\* (called with price_risk > 0)
position_size(bal, price, price_risk, risk_percentage) ==
    LET risk_amount == RMul(bal, RDiv(risk_percentage, R(100)))
        quantity == RDiv(risk_amount, price_risk)
        position_value == RMul(quantity, price)
    IN  IF RGt(position_value, RMul(bal, R95))
        THEN LET q == RDiv(RMul(bal, R95), price)
             IN  [quantity |-> q, position_value |-> RMul(q, price)]
        ELSE [quantity |-> quantity, position_value |-> position_value]

\* variant: the commission is left out of the funds check
insufficient_funds_ignoring_commission(bal, position_value, commission) ==
    RLt(bal, position_value)

\* line 294
insufficient_funds(bal, position_value, commission) ==
    RLt(bal, RAdd(position_value, commission))

\* variant: the symbol's position is deleted before the call gives up
rejected_dropping_position(pos) == [result |-> None, positions |-> <<>>]

\* return None: the caller's dict is left as this call found it
rejected(pos) == [result |-> None, positions |-> pos]

\* variant: the keys of the signal are not read
signal_get_default(sig, key, default) == default

\* signal.get(key, default)
signal_get(sig, key, default) == IF key \in DOMAIN sig THEN sig[key] ELSE default

\* variant: the commission is recorded but not taken from the cash
execute_buy_commission_unpaid(timestamp, price, bal, pos, symbol, size, commission, stop_loss, take_profit) ==
    LET new_balance == RSub(bal, size.position_value)
        new_positions ==
            (symbol :> [side |-> "LONG",
                        quantity |-> size.quantity,
                        entry_price |-> price,
                        stop_loss |-> stop_loss,
                        take_profit |-> take_profit]) @@ pos
    IN  [result |-> [timestamp |-> timestamp,
                     symbol |-> symbol,
                     side |-> "BUY",
                     quantity |-> size.quantity,
                     price |-> price,
                     value |-> size.position_value,
                     commission |-> commission,
                     new_balance |-> new_balance,
                     new_positions |-> new_positions],
         positions |-> new_positions]

\* lines 298-316
execute_buy(timestamp, price, bal, pos, symbol, size, commission, stop_loss, take_profit) ==
    LET new_balance == RSub(RSub(bal, size.position_value), commission)
        new_positions ==
            (symbol :> [side |-> "LONG",
                        quantity |-> size.quantity,
                        entry_price |-> price,
                        stop_loss |-> stop_loss,
                        take_profit |-> take_profit]) @@ pos
    IN  [result |-> [timestamp |-> timestamp,
                     symbol |-> symbol,
                     side |-> "BUY",
                     quantity |-> size.quantity,
                     price |-> price,
                     value |-> size.position_value,
                     commission |-> commission,
                     new_balance |-> new_balance,
                     new_positions |-> new_positions],
         positions |-> new_positions]

\* lines 320-343; commission is the one line 291 computed for this call
execute_sell(timestamp, price, bal, pos, symbol, commission, commission_rate) ==
    LET position == pos[symbol]
    IN  IF position.side = "LONG"
        THEN
            LET sell_value == RMul(position.quantity, price)
                sell_commission == RMul(sell_value, commission_rate)
                buy_value == RMul(position.quantity, position.entry_price)
                pnl == RSub(RSub(RSub(sell_value, buy_value), commission), sell_commission)
                new_balance == RSub(RAdd(bal, sell_value), sell_commission)
                new_positions == [s \in DOMAIN pos \ {symbol} |-> pos[s]]
            IN  [result |-> [timestamp |-> timestamp,
                             symbol |-> symbol,
                             side |-> "SELL",
                             quantity |-> position.quantity,
                             price |-> price,
                             value |-> sell_value,
                             commission |-> sell_commission,
                             pnl |-> pnl,
                             new_balance |-> new_balance,
                             new_positions |-> new_positions],
                 positions |-> new_positions]
        ELSE rejected(pos)

\* variant: a SELL that closes no position opens a short one
unmatched_opening_short(timestamp, price, bal, pos, symbol, size) ==
    LET new_positions ==
            (symbol :> [side |-> "SHORT",
                        quantity |-> size.quantity,
                        entry_price |-> price]) @@ pos
    IN  [result |-> [timestamp |-> timestamp,
                     symbol |-> symbol,
                     side |-> "SELL",
                     quantity |-> size.quantity,
                     price |-> price,
                     value |-> size.position_value,
                     commission |-> Zero,
                     new_balance |-> RAdd(bal, size.position_value),
                     new_positions |-> new_positions],
         positions |-> new_positions]

\* line 345: neither branch applied (a SELL with no position for the
\* symbol, an action that is neither BUY nor SELL)
unmatched(timestamp, price, bal, pos, symbol, size) == rejected(pos)

\* _execute_backtest_trade: what it returns and the positions dict as it
\* leaves it (the dict is mutated in place)
execute_backtest_trade(sig, timestamp, price, bal, pos, cfg) ==
    LET symbol == cfg.symbol
        risk_percentage == cfg.risk_percentage
        commission_rate == cfg.commission_rate
        stop_loss == signal_get(sig, "stop_loss", RMul(price, R98))
        price_risk == RAbs(RSub(price, stop_loss))
    IN  IF RLe(price_risk, Zero) THEN rejected(pos)
        ELSE
            LET size == position_size(bal, price, price_risk, risk_percentage)
                commission == RMul(size.position_value, commission_rate)
            IN  IF sig.action = "BUY"
                THEN IF insufficient_funds(bal, size.position_value, commission)
                     THEN rejected(pos)
                     ELSE execute_buy(timestamp, price, bal, pos, symbol, size, commission,
                                      stop_loss,
                                      signal_get(sig, "take_profit", RMul(price, R104)))
                ELSE IF sig.action = "SELL" /\ symbol \in DOMAIN pos
                THEN execute_sell(timestamp, price, bal, pos, symbol, commission,
                                  commission_rate)
                ELSE unmatched(timestamp, price, bal, pos, symbol, size)

\* variant: open positions are not valued
calculate_portfolio_value_cash_only(bal, pos, current_price) == bal

\* _calculate_portfolio_value
calculate_portfolio_value(bal, pos, current_price) ==
    LET value(s) == IF pos[s].side = "LONG"
                    THEN RMul(pos[s].quantity, current_price)
                    ELSE Zero
    IN  IF Symbol \in DOMAIN pos THEN RAdd(bal, value(Symbol)) ELSE bal

\* variant: the point values the cash only
equity_point_cash_only(timestamp, bal, portfolio_value, current_price) ==
    [timestamp |-> timestamp,
     balance |-> bal,
     portfolio_value |-> bal,
     price |-> current_price]

\* lines 198-203
equity_point(timestamp, bal, portfolio_value, current_price) ==
    [timestamp |-> timestamp,
     balance |-> bal,
     portfolio_value |-> portfolio_value,
     price |-> current_price]

\* variant: a point is recorded only when the portfolio value changed
record_equity_on_change(curve, point) ==
    IF curve # <<>> /\ curve[Len(curve)].portfolio_value = point.portfolio_value
    THEN curve
    ELSE Append(curve, point)

\* equity_curve.append(...)
record_equity(curve, point) == Append(curve, point)

has_pnl(t) == "pnl" \in DOMAIN t

\* t.get('pnl', 0)
pnl_of(t) == IF has_pnl(t) THEN t.pnl ELSE Zero

Inf == [inf |-> TRUE]

\* the greatest element of a non-empty set of rationals
RMaxOf(S) == CHOOSE v \in S : \A w \in S : RLe(w, v)

\* variant: the peak is the greatest value of the whole curve
peak_at_whole_curve(vs, k) == RMaxOf({vs[j] : j \in 1..Len(vs)})

\* lines 386-391: peak when the loop is at value k; it starts at the first
\* value and is raised by every greater value met
peak_at(vs, k) == RMaxOf({vs[1]} \cup {vs[j] : j \in 1..k})

\* line 392
drawdown_at(vs, k) ==
    RMul(RDiv(RSub(peak_at(vs, k), vs[k]), peak_at(vs, k)), R(100))

\* lines 387-393: max_drawdown starts at 0 and is the max over the loop
max_drawdown_of(vs) == RMaxOf({Zero} \cup {drawdown_at(vs, k) : k \in 1..Len(vs)})

IntMax(a, b) == IF a > b THEN a ELSE b

\* lines 444-449: the loop of _calculate_consecutive_wins from trade k on,
\* over every record of the list
RECURSIVE consecutive_wins_loop(_, _, _, _)
consecutive_wins_loop(trs, k, current_consecutive, max_consecutive) ==
    IF k > Len(trs) THEN max_consecutive
    ELSE IF RGt(pnl_of(trs[k]), Zero)
         THEN consecutive_wins_loop(trs, k + 1, current_consecutive + 1,
                                    IntMax(max_consecutive, current_consecutive + 1))
         ELSE consecutive_wins_loop(trs, k + 1, 0, max_consecutive)

\* _calculate_consecutive_wins
calculate_consecutive_wins(trs) == consecutive_wins_loop(trs, 1, 0, 0)

\* lines 458-463: the loop of _calculate_consecutive_losses
RECURSIVE consecutive_losses_loop(_, _, _, _)
consecutive_losses_loop(trs, k, current_consecutive, max_consecutive) ==
    IF k > Len(trs) THEN max_consecutive
    ELSE IF RLt(pnl_of(trs[k]), Zero)
         THEN consecutive_losses_loop(trs, k + 1, current_consecutive + 1,
                                      IntMax(max_consecutive, current_consecutive + 1))
         ELSE consecutive_losses_loop(trs, k + 1, 0, max_consecutive)

\* _calculate_consecutive_losses
calculate_consecutive_losses(trs) == consecutive_losses_loop(trs, 1, 0, 0)

\* variant: every record of the list counts as a trade
total_trades_all_records(trs) == Len(trs)

\* line 369
total_trades_of(trs) == Len(SelectSeq(trs, has_pnl))

\* variant: no sentinel, a run without loss has a profit factor of 0
profit_factor_without_sentinel(gross_profit, gross_loss) ==
    IF RGt(gross_loss, Zero) THEN RDiv(gross_profit, gross_loss) ELSE Zero

\* line 382
profit_factor_of(gross_profit, gross_loss) ==
    IF RGt(gross_loss, Zero) THEN RDiv(gross_profit, gross_loss) ELSE Inf

\* lines 396-399: the per-step returns of the portfolio values
step_returns(vs) ==
    [k \in 1..(Len(vs) - 1) |-> RDiv(RSub(vs[k + 1], vs[k]), vs[k])]

\* lines 401-406: 0 without returns and when their standard deviation is 0,
\* which it is exactly when the returns are all equal; otherwise
\* mean / std * sqrt(252), a function of the returns (not a rational:
\* it is kept as the record of the returns it is computed from)
sharpe_ratio_of(returns) ==
    IF returns # <<>>
    THEN IF \E j, k \in 1..Len(returns) : returns[j] # returns[k]
         THEN [sharpe_of |-> returns]
         ELSE Zero
    ELSE Zero

\* line 368 divides by initial_balance: with initial_balance = 0 and no
\* position open (final_balance is then a Python number, not a numpy one)
\* the division raises ZeroDivisionError
metrics_raise(initial, pos) == initial = Zero /\ pos = <<>>

\* _calculate_backtest_metrics (initial_balance # 0, portfolio values # 0)
calculate_backtest_metrics(trs, curve, initial, final_balance) ==
    LET total_return == RMul(RDiv(RSub(final_balance, initial), initial), R(100))
        total_trades == total_trades_of(trs)
        profitable_trades == SelectSeq(trs, LAMBDA t : RGt(pnl_of(t), Zero))
        losing_trades == SelectSeq(trs, LAMBDA t : RLt(pnl_of(t), Zero))
        winning_trades == Len(profitable_trades)
        losing_count == Len(losing_trades)
        win_rate == IF total_trades > 0
                    THEN RMul(Rat(winning_trades, total_trades), R(100))
                    ELSE Zero
        gross_profit == RSum([k \in 1..Len(profitable_trades) |-> profitable_trades[k].pnl])
        gross_loss == RAbs(RSum([k \in 1..Len(losing_trades) |-> losing_trades[k].pnl]))
        profit_factor == profit_factor_of(gross_profit, gross_loss)
        portfolio_values == [k \in 1..Len(curve) |-> curve[k].portfolio_value]
        max_drawdown == max_drawdown_of(portfolio_values)
        sharpe_ratio == sharpe_ratio_of(step_returns(portfolio_values))
        metrics ==
            [total_commission |-> RSum([k \in 1..Len(trs) |-> trs[k].commission]),
             average_win |-> IF winning_trades > 0
                             THEN RDiv(gross_profit, R(winning_trades))
                             ELSE Zero,
             average_loss |-> IF losing_count > 0
                              THEN RDiv(gross_loss, R(losing_count))
                              ELSE Zero,
             consecutive_wins |-> calculate_consecutive_wins(trs),
             consecutive_losses |-> calculate_consecutive_losses(trs)]
    IN  [initial_balance |-> initial,
         final_balance |-> final_balance,
         total_return |-> total_return,
         total_trades |-> total_trades,
         winning_trades |-> winning_trades,
         losing_trades |-> losing_count,
         win_rate |-> win_rate,
         profit_factor |-> profit_factor,
         max_drawdown |-> max_drawdown,
         sharpe_ratio |-> sharpe_ratio,
         trades |-> trs,
         equity_curve |-> curve,
         metrics |-> metrics]

----------------------------------------------------------------------------
(* run_backtest *)

\* variant: positions kept on the engine and not reset by a new call
run_positions_stale == positions

\* lines 177-180
run_balance_init == initial_balance
run_positions_init == <<>>
run_trades_init == <<>>
run_equity_init == <<>>

Init ==
    /\ feed \in Frames
    /\ data_cache = <<>>
    /\ config \in Configs
    /\ initial_balance \in InitialBalances
    /\ run = 1
    /\ pc = "start"
    /\ data = <<>>
    /\ i = 0
    /\ balance = Zero
    /\ positions = <<>>
    /\ trades = <<>>
    /\ equity_curve = <<>>
    /\ historical_data = <<>>
    /\ signal = None
    /\ trade_result = None
    /\ result = None
    /\ first_result = None
    /\ rng = 0
    /\ workers = <<>>
    /\ services_idle

\* lines 174-190: the locals are initialised and the frame is fetched; an
\* empty frame raises ValueError
StartRun ==
    /\ pc = "start"
    /\ LET fetch == get_historical_data(data_cache, feed)
       IN  /\ data' = fetch.frame
           /\ data_cache' = fetch.cache
           /\ pc' = IF data_unavailable(fetch.frame) THEN "error" ELSE "loop"
    /\ balance' = run_balance_init
    /\ positions' = run_positions_init
    /\ trades' = run_trades_init
    /\ equity_curve' = run_equity_init
    /\ i' = 0
    /\ historical_data' = <<>>
    /\ signal' = None
    /\ trade_result' = None
    /\ result' = None
    /\ UNCHANGED <<feed, config, initial_balance, run, first_result>>
    /\ UNCHANGED <<parallel_vars, service_vars>>

actionable(sig) == sig # None /\ sig.action \in {"BUY", "SELL"}

\* line 217 binds the local positions to the very dict stored in the record
\* just appended (trade_result['new_positions']), and the next executed
\* trade writes into it in place (lines 298 and 330) before it copies it:
\* the last record of the list shows the positions pos the trade leaves
written_through(trs, pos) ==
    IF trs = <<>> THEN trs
    ELSE [trs EXCEPT ![Len(trs)].new_positions = pos]

\* lines 194-217: one iteration of the loop, for the row and the signal given
Iteration(row, hist, sig) ==
    LET timestamp == row.timestamp
        current_price == R(row.close)
        portfolio_value == calculate_portfolio_value(balance, positions, current_price)
        r == execute_backtest_trade(sig, timestamp, current_price, balance, positions, config)
    IN  /\ equity_curve' = record_equity(equity_curve,
                                         equity_point(timestamp, balance, portfolio_value,
                                                      current_price))
        /\ historical_data' = hist
        /\ signal' = sig
        /\ IF actionable(sig)
           THEN /\ trade_result' = r.result
                /\ IF r.result # None
                   THEN /\ trades' = Append(written_through(trades,
                                                            r.result.new_positions),
                                            r.result)
                        /\ balance' = r.result.new_balance
                        /\ positions' = r.result.new_positions
                   ELSE /\ positions' = r.positions
                        /\ UNCHANGED <<trades, balance>>
           ELSE /\ trade_result' = None
                /\ UNCHANGED <<trades, balance, positions>>
        /\ i' = i + 1
        /\ UNCHANGED <<feed, data_cache, config, initial_balance, run, pc, data,
                       result, first_result>>
        /\ UNCHANGED <<parallel_vars, service_vars>>

\* the loop body with the engine's own signal generator
ProcessBar ==
    /\ pc = "loop"
    /\ i < Len(data)
    /\ LET row == data[i + 1]
           hist == loc_slice(data, row.timestamp)
       IN  Iteration(row, hist, generate_backtest_signal(row, hist, config))

\* lines 219-224
Finish ==
    /\ pc = "loop"
    /\ i = Len(data)
    /\ LET final_balance ==
               calculate_portfolio_value(balance, positions, R(data[Len(data)].close))
           res == calculate_backtest_metrics(trades, equity_curve, initial_balance,
                                             final_balance)
       IN  IF metrics_raise(initial_balance, positions)
           THEN /\ pc' = "error"
                /\ UNCHANGED <<result, first_result>>
           ELSE /\ pc' = "done"
                /\ result' = res
                /\ first_result' = IF run = 1 THEN res ELSE first_result
    /\ UNCHANGED <<feed, data_cache, config, initial_balance, run, data, i, balance,
                   positions, trades, equity_curve, historical_data, signal,
                   trade_result>>
    /\ UNCHANGED <<parallel_vars, service_vars>>

\* the caller calls run_backtest again on the same engine, with the same
\* arguments
Rerun ==
    /\ pc \in {"done", "error"}
    /\ run < MaxRuns
    /\ run' = run + 1
    /\ pc' = "start"
    /\ UNCHANGED <<feed, data_cache, config, initial_balance, data, i, balance,
                   positions, trades, equity_curve, historical_data, signal,
                   trade_result, result, first_result>>
    /\ UNCHANGED <<parallel_vars, service_vars>>

Next == StartRun \/ ProcessBar \/ Finish \/ Rerun

Spec == Init /\ [][Next]_vars

----------------------------------------------------------------------------
(* _execute_backtest_trade under any signal: the loop of run_backtest over  *)
(* short frames, the signal of each row being any dict the method accepts   *)
(* (stop_loss and take_profit are optional keys, lines 277 and 303)         *)

\* a stop 2% under the price, and a stop at the price itself
StopChoices(price) == {RMul(price, R98), price}

Signals(price) ==
    {None, [action |-> "HOLD"]}
    \cup {[action |-> a] : a \in {"BUY", "SELL"}}
    \cup {[action |-> a, stop_loss |-> sl, take_profit |-> RMul(price, R104)] :
            a \in {"BUY", "SELL"}, sl \in StopChoices(price)}

ShortFrames == {Frame(cs) : cs \in UNION {Seqs({100, 200}, n) : n \in 0..MaxTail}}

InitAnySignal ==
    /\ Init
    /\ feed \in ShortFrames

ProcessBarAnySignal ==
    /\ pc = "loop"
    /\ i < Len(data)
    /\ LET row == data[i + 1]
           hist == loc_slice(data, row.timestamp)
       IN  \E sig \in Signals(R(row.close)) : Iteration(row, hist, sig)

NextAnySignal == StartRun \/ ProcessBarAnySignal \/ Finish

SpecAnySignal == InitAnySignal /\ [][NextAnySignal]_vars

\* the same, the configuration being any the route passes on unvalidated
\* (routes/backtesting.py:52-59): here also a risk of 0.5% with a commission
\* of 200% of the notional
AnyRateConfigs ==
    Configs \cup {[symbol |-> Symbol, risk_percentage |-> Rat(1, 2),
                   commission_rate |-> R(2)]}

InitAnyRate ==
    /\ feed \in ShortFrames
    /\ data_cache = <<>>
    /\ config \in AnyRateConfigs
    /\ initial_balance \in InitialBalances
    /\ run = 1
    /\ pc = "start"
    /\ data = <<>>
    /\ i = 0
    /\ balance = Zero
    /\ positions = <<>>
    /\ trades = <<>>
    /\ equity_curve = <<>>
    /\ historical_data = <<>>
    /\ signal = None
    /\ trade_result = None
    /\ result = None
    /\ first_result = None
    /\ rng = 0
    /\ workers = <<>>
    /\ services_idle

SpecAnyRate == InitAnyRate /\ [][NextAnySignal]_vars

----------------------------------------------------------------------------
(* Runs long enough for two round trips: frames of MaxTail + 1 rows, the    *)
(* signal of each row being none, a BUY or a SELL without stop_loss         *)

RoundTripFrames == {Frame(cs) : cs \in Seqs({100, 200}, MaxTail + 1)}

PlainSignals == {None, [action |-> "BUY"], [action |-> "SELL"]}

InitRoundTrips ==
    /\ feed \in RoundTripFrames
    /\ data_cache = <<>>
    /\ config \in Configs
    /\ initial_balance \in InitialBalances
    /\ run = 1
    /\ pc = "start"
    /\ data = <<>>
    /\ i = 0
    /\ balance = Zero
    /\ positions = <<>>
    /\ trades = <<>>
    /\ equity_curve = <<>>
    /\ historical_data = <<>>
    /\ signal = None
    /\ trade_result = None
    /\ result = None
    /\ first_result = None
    /\ rng = 0
    /\ workers = <<>>
    /\ services_idle

ProcessBarPlainSignal ==
    /\ pc = "loop"
    /\ i < Len(data)
    /\ LET row == data[i + 1]
           hist == loc_slice(data, row.timestamp)
       IN  \E sig \in PlainSignals : Iteration(row, hist, sig)

NextRoundTrips == StartRun \/ ProcessBarPlainSignal \/ Finish

SpecRoundTrips == InitRoundTrips /\ [][NextRoundTrips]_vars

----------------------------------------------------------------------------
(* Runs whose every actionable signal has its stop_loss at the price *)

ZeroRiskSignals(price) ==
    {None, [action |-> "HOLD"]}
    \cup {[action |-> a, stop_loss |-> price, take_profit |-> RMul(price, R104)] :
            a \in {"BUY", "SELL"}}

ProcessBarZeroRisk ==
    /\ pc = "loop"
    /\ i < Len(data)
    /\ LET row == data[i + 1]
           hist == loc_slice(data, row.timestamp)
       IN  \E sig \in ZeroRiskSignals(R(row.close)) : Iteration(row, hist, sig)

NextZeroRisk == StartRun \/ ProcessBarZeroRisk \/ Finish

SpecZeroRisk == InitAnySignal /\ [][NextZeroRisk]_vars

----------------------------------------------------------------------------
(* Two calls of run_backtest executed on two threads of one process, with   *)
(* no exchange configured (ExchangeManager.get_exchange returns None), so   *)
(* that get_historical_data falls back on _generate_synthetic_data. Each    *)
(* thread has its own locals; numpy's global generator is the process's.    *)

Workers == {1, 2}

\* len(dates) of a request: the rows of its synthetic frame
Periods == 1..MaxTail

\* line 135
base_price == 45000

\* the values np.random.normal yields after seed(42), in order, stood for by
\* a fixed sequence (read cyclically): the generator is deterministic, value
\* k of the stream depends only on the number k of values drawn since the
\* seed. The values chosen keep every price a whole number.
NormalStream ==
    << R(1), Rat(-1, 2), R(1), Rat(-1, 2), Rat(-1, 2), R(1), Rat(-1, 2), R(1) >>

normal_value(k) == NormalStream[(k % Len(NormalStream)) + 1]

\* np.random.normal(0.0001, 0.02, n) with the generator at position at
random_normal(at, n) == [k \in 1..n |-> normal_value(at + k - 1)]

\* lines 143-147: prices[0] = base_price, each next price is the last one
\* times (1 + ret), for ret in returns[1:]
RECURSIVE synthetic_price(_, _)
synthetic_price(returns, k) ==
    IF k = 1 THEN R(base_price)
    ELSE RMul(synthetic_price(returns, k - 1), RAdd(R(1), returns[k]))

\* lines 150-151: the frame indexed by dates, with its close column
synthetic_frame(returns) ==
    [k \in 1..Len(returns) |-> Bar(k, synthetic_price(returns, k).num)]

\* the locals of run_backtest at line 193, lines 177-180 and 186
loop_entry(n, frame, initial) ==
    [pc |-> "loop", periods |-> n, returns |-> <<>>, data |-> frame, i |-> 0,
     balance |-> initial, positions |-> <<>>, trades |-> <<>>,
     equity_curve |-> <<>>, result |-> None]

\* lines 194-217 on the locals st of a thread
loop_body(st, cfg) ==
    LET row == st.data[st.i + 1]
        timestamp == row.timestamp
        current_price == R(row.close)
        portfolio_value == calculate_portfolio_value(st.balance, st.positions,
                                                     current_price)
        hist == loc_slice(st.data, timestamp)
        sig == generate_backtest_signal(row, hist, cfg)
        r == execute_backtest_trade(sig, timestamp, current_price, st.balance,
                                    st.positions, cfg)
        curve == record_equity(st.equity_curve,
                               equity_point(timestamp, st.balance, portfolio_value,
                                            current_price))
    IN  IF actionable(sig) /\ r.result # None
        THEN [st EXCEPT !.equity_curve = curve, !.i = @ + 1,
                        !.trades = Append(written_through(@, r.result.new_positions),
                                          r.result),
                        !.balance = r.result.new_balance,
                        !.positions = r.result.new_positions]
        ELSE IF actionable(sig)
        THEN [st EXCEPT !.equity_curve = curve, !.i = @ + 1,
                        !.positions = r.positions]
        ELSE [st EXCEPT !.equity_curve = curve, !.i = @ + 1]

\* lines 219-224 on the locals st of a thread
loop_exit(st, initial) ==
    LET final_balance ==
            calculate_portfolio_value(st.balance, st.positions,
                                      R(st.data[Len(st.data)].close))
    IN  IF metrics_raise(initial, st.positions)
        THEN [st EXCEPT !.pc = "error"]
        ELSE [st EXCEPT !.pc = "done",
                        !.result = calculate_backtest_metrics(st.trades,
                                                              st.equity_curve,
                                                              initial, final_balance)]

RECURSIVE run_loop(_, _, _)
run_loop(st, cfg, initial) ==
    IF st.i < Len(st.data) THEN run_loop(loop_body(st, cfg), cfg, initial)
    ELSE loop_exit(st, initial)

\* the result of run_backtest for a request of n rows executed alone: the
\* generator is seeded and the returns are its first n values
run_alone(n, cfg, initial) ==
    run_loop(loop_entry(n, synthetic_frame(random_normal(0, n)), initial),
             cfg, initial).result

InitParallel ==
    /\ feed = <<>>
    /\ data_cache = <<>>
    /\ config \in Configs
    /\ initial_balance \in InitialBalances
    /\ run = 1
    /\ pc = "start"
    /\ data = <<>>
    /\ i = 0
    /\ balance = Zero
    /\ positions = <<>>
    /\ trades = <<>>
    /\ equity_curve = <<>>
    /\ historical_data = <<>>
    /\ signal = None
    /\ trade_result = None
    /\ result = None
    /\ first_result = None
    /\ rng = 0
    /\ workers \in [Workers ->
                     {[pc |-> "start", periods |-> n, returns |-> <<>>, data |-> <<>>,
                       i |-> 0, balance |-> Zero, positions |-> <<>>,
                       trades |-> <<>>, equity_curve |-> <<>>, result |-> None] :
                        n \in Periods}]
    /\ services_idle

run_vars == <<feed, data_cache, config, initial_balance, run, pc, data, i, balance,
              positions, trades, equity_curve, historical_data, signal,
              trade_result, result, first_result>>

\* line 131: np.random.seed(42)
Seed(w) ==
    /\ workers[w].pc = "start"
    /\ rng' = 0
    /\ workers' = [workers EXCEPT ![w].pc = "seeded"]
    /\ UNCHANGED <<run_vars, service_vars>>

\* line 142: returns = np.random.normal(0.0001, 0.02, len(dates))
DrawReturns(w) ==
    /\ workers[w].pc = "seeded"
    /\ rng' = rng + workers[w].periods
    /\ workers' = [workers EXCEPT
                      ![w].pc = "returns",
                      ![w].returns = random_normal(rng, workers[w].periods)]
    /\ UNCHANGED <<run_vars, service_vars>>

\* line 155: volatility = np.random.uniform(0.005, 0.03, len(df))
DrawVolatility(w) ==
    /\ workers[w].pc = "returns"
    /\ rng' = rng + workers[w].periods
    /\ workers' = [workers EXCEPT ![w].pc = "volatility"]
    /\ UNCHANGED <<run_vars, service_vars>>

\* lines 160-162 and 186-190: the volume is drawn, the frame is returned
\* to run_backtest, which enters its loop
DrawVolume(w) ==
    /\ workers[w].pc = "volatility"
    /\ rng' = rng + workers[w].periods
    /\ workers' = [workers EXCEPT
                      ![w] = [loop_entry(workers[w].periods,
                                         synthetic_frame(workers[w].returns),
                                         initial_balance)
                                EXCEPT !.returns = workers[w].returns]]
    /\ UNCHANGED <<run_vars, service_vars>>

WorkerBar(w) ==
    /\ workers[w].pc = "loop"
    /\ workers[w].i < Len(workers[w].data)
    /\ workers' = [workers EXCEPT ![w] = loop_body(workers[w], config)]
    /\ UNCHANGED rng
    /\ UNCHANGED <<run_vars, service_vars>>

WorkerFinish(w) ==
    /\ workers[w].pc = "loop"
    /\ workers[w].i = Len(workers[w].data)
    /\ workers' = [workers EXCEPT ![w] = loop_exit(workers[w], initial_balance)]
    /\ UNCHANGED rng
    /\ UNCHANGED <<run_vars, service_vars>>

NextParallel ==
    \E w \in Workers :
        \/ Seed(w)
        \/ DrawReturns(w)
        \/ DrawVolatility(w)
        \/ DrawVolume(w)
        \/ WorkerBar(w)
        \/ WorkerFinish(w)

SpecParallel == InitParallel /\ [][NextParallel]_vars

----------------------------------------------------------------------------
(* Degenerate histories: run_backtest over frames of at most MaxTail rows,  *)
(* with the initial balance the request carries, 0 included                 *)
(* (routes/backtesting.py:62 passes it on unvalidated)                      *)

AnyBalances == InitialBalances \cup {Zero}

InitDegenerate ==
    /\ feed \in ShortFrames
    /\ data_cache = <<>>
    /\ config \in Configs
    /\ initial_balance \in AnyBalances
    /\ run = 1
    /\ pc = "start"
    /\ data = <<>>
    /\ i = 0
    /\ balance = Zero
    /\ positions = <<>>
    /\ trades = <<>>
    /\ equity_curve = <<>>
    /\ historical_data = <<>>
    /\ signal = None
    /\ trade_result = None
    /\ result = None
    /\ first_result = None
    /\ rng = 0
    /\ workers = <<>>
    /\ services_idle

NextDegenerate == StartRun \/ ProcessBar \/ Finish

SpecDegenerate == InitDegenerate /\ [][NextDegenerate]_vars

----------------------------------------------------------------------------
(* Properties *)

\* the step taken is one iteration of the loop of run_backtest
IterationStep == pc = "loop" /\ i' = i + 1

IsOpen(pos) == Symbol \in DOMAIN pos

\* the equity point recorded on the row of trade record t: it carries the
\* balance the trade found
PointOf(curve, t) == curve[CHOOSE k \in 1..Len(curve) : curve[k].timestamp = t.timestamp]

\* C1: a BUY decision processed while a position is open for the symbol
\* changes neither the cash balance, nor the open position, nor the trade list.
C1_BuyWhileOpenIsNoOp ==
    [][(IterationStep /\ actionable(signal') /\ signal'.action = "BUY" /\ IsOpen(positions))
        => (balance' = balance /\ positions' = positions /\ trades' = trades)]_vars

\* C2: the realized_pnl of every SELL record is quantity * sell_price
\* - quantity * entry_price - entry_commission - sell_commission, where
\* entry_commission is the commission charged by the BUY record that opened
\* the position (the record just before it) and sell_commission is
\* quantity * sell_price * commission_rate.
C2_RealizedPnl ==
    \A k \in 1..Len(trades) :
        trades[k].side = "SELL" =>
            /\ k > 1
            /\ trades[k - 1].side = "BUY"
            /\ LET sell == trades[k]
                   buy == trades[k - 1]
                   sell_notional == RMul(sell.quantity, sell.price)
                   sell_commission == RMul(sell_notional, config.commission_rate)
               IN  /\ sell.quantity = buy.quantity
                   /\ sell.pnl = RSub(RSub(RSub(sell_notional,
                                               RMul(sell.quantity, buy.price)),
                                          buy.commission),
                                     sell_commission)

\* C3: every SELL decision processed while a LONG position is open closes
\* it: cash grows by quantity * price - quantity * price * commission_rate,
\* the position is cleared and one SELL record carrying realized_pnl is
\* appended, whatever the signal's stop-loss and the cash balance.
C3_SellClosesOpenLong ==
    [][(IterationStep /\ actionable(signal') /\ signal'.action = "SELL"
          /\ IsOpen(positions) /\ positions[Symbol].side = "LONG")
        => LET quantity == positions[Symbol].quantity
               price == R(data[i + 1].close)
               sell_notional == RMul(quantity, price)
           IN  /\ balance' = RAdd(balance,
                                  RSub(sell_notional,
                                       RMul(sell_notional, config.commission_rate)))
               /\ ~IsOpen(positions')
               /\ Len(trades') = Len(trades) + 1
               /\ trades'[Len(trades')].side = "SELL"
               /\ has_pnl(trades'[Len(trades')])]_vars

\* C4: a rejected decision (no record returned) leaves the cash balance, the
\* open position and the trade list as they were before it was evaluated.
C4_RejectedLeavesState ==
    [][(IterationStep /\ actionable(signal') /\ trade_result' = None)
        => (balance' = balance /\ positions' = positions /\ trades' = trades)]_vars

\* a decision was rejected while a position was open and trades were recorded
C4_Witness ==
    /\ pc = "loop"
    /\ i > 0
    /\ actionable(signal)
    /\ trade_result = None
    /\ IsOpen(positions)
    /\ Len(trades) > 0

\* every accepted BUY record has notional + commission <= the cash balance
\* the trade found (the balance of the equity point of its row)
BuysAreFunded ==
    \A k \in 1..Len(trades) :
        trades[k].side = "BUY" =>
            RLe(RAdd(trades[k].value, trades[k].commission),
                PointOf(equity_curve, trades[k]).balance)

\* the cash balance of every equity point is >= 0
CashNeverNegative ==
    \A k \in 1..Len(equity_curve) : RLe(Zero, equity_curve[k].balance)

\* C5 (as stated): every accepted BUY record has notional + commission <=
\* the cash balance the trade found, and for initial_balance >= 0 and
\* commission_rate >= 0 the cash balance of every equity point is >= 0.
C5_CapitalInvariant ==
    /\ BuysAreFunded
    /\ (RLe(Zero, initial_balance) /\ RLe(Zero, config.commission_rate))
          => CashNeverNegative

\* C5 (amended): every accepted BUY record has notional + commission <= the
\* cash balance the trade found, and for initial_balance >= 0 and
\* 0 <= commission_rate <= 1 the cash balance of every equity point is >= 0.
C5_CapitalInvariantRateAtMostOne ==
    /\ BuysAreFunded
    /\ (RLe(Zero, initial_balance) /\ RLe(Zero, config.commission_rate)
          /\ RLe(config.commission_rate, R(1)))
          => CashNeverNegative

\* a BUY that paid a commission was accepted, and a later equity point shows
\* the cash it left
C5_Witness ==
    /\ RLe(config.commission_rate, R(1))
    /\ Len(trades) > 0
    /\ trades[Len(trades)].side = "BUY"
    /\ RGt(trades[Len(trades)].commission, Zero)
    /\ Len(equity_curve) > 0
    /\ equity_curve[Len(equity_curve)].balance = trades[Len(trades)].new_balance

\* C6: every accepted BUY has quantity * price <= 0.95 * (the cash balance
\* the trade found), and when the risk-based quantity exceeds that, the
\* quantity is 0.95 * balance / price.
C6_CapInvariant ==
    (pc = "loop" /\ i > 0 /\ trade_result # None /\ trade_result.side = "BUY") =>
        LET before == equity_curve[Len(equity_curve)].balance
            price == trade_result.price
            cap == RMul(before, R95)
            risk_amount == RMul(before, RDiv(config.risk_percentage, R(100)))
            price_risk == RAbs(RSub(price, positions[Symbol].stop_loss))
            risk_quantity == RDiv(risk_amount, price_risk)
        IN  /\ trade_result.value = RMul(trade_result.quantity, price)
            /\ RLe(RMul(trade_result.quantity, price), cap)
            /\ RGt(RMul(risk_quantity, price), cap)
                  => trade_result.quantity = RDiv(cap, price)

\* a BUY was accepted with its quantity reduced to the cap
C6_Witness ==
    /\ pc = "loop"
    /\ i > 0
    /\ trade_result # None
    /\ trade_result.side = "BUY"
    /\ RGt(trade_result.value, Zero)
    /\ trade_result.value = RMul(equity_curve[Len(equity_curve)].balance, R95)

\* rows k of the frame and point k of the curve agree
PointMatchesRow(curve, d, k) ==
    /\ curve[k].timestamp = d[k].timestamp
    /\ curve[k].price = R(d[k].close)

\* C7: the equity curve has exactly one point per row consumed, in row
\* order (point k carries row k's timestamp and close); the loop never runs
\* past the frame (so the row counter, which grows by one per iteration,
\* stops at its length), and a run over a non-empty frame ends with one
\* point per row of the frame.
C7_OnePointPerBar ==
    /\ pc = "loop" =>
          /\ i <= Len(data)
          /\ Len(equity_curve) = i
          /\ \A k \in 1..i : PointMatchesRow(equity_curve, data, k)
    /\ pc = "done" =>
          /\ Len(data) > 0
          /\ Len(result.equity_curve) = Len(data)
          /\ \A k \in 1..Len(data) : PointMatchesRow(result.equity_curve, data, k)

\* a run ended whose rows include rows with a trade and rows without one
C7_Witness ==
    /\ pc = "done"
    /\ Len(result.trades) > 0
    /\ Len(result.equity_curve) > Len(result.trades)

\* C8: the frame passed to the signal generator at row i is exactly rows
\* 1..i (no label beyond the current row's), and the decision taken at row i
\* is the one taken on every frame that has the same rows 1..i.
C8_NoLookahead ==
    (pc = "loop" /\ i > 0) =>
        /\ historical_data = SubSeq(data, 1, i)
        /\ \A k \in 1..Len(historical_data) :
              historical_data[k].timestamp <= data[i].timestamp
        /\ \A d \in Frames :
              (Len(d) = Len(data) /\ SubSeq(d, 1, i) = SubSeq(data, 1, i)) =>
                  generate_backtest_signal(d[i], loc_slice(d, d[i].timestamp), config)
                      = signal

\* a decision was taken on a row that is not the last one
C8_Witness ==
    /\ pc = "loop"
    /\ i > 0
    /\ i < Len(data)
    /\ actionable(signal)

C10_Determinism ==
    /\ (run > 1 /\ pc = "done") => result = first_result
    /\ (run > 1 /\ pc = "error") => first_result = None

\* a second call returned, after a first one that traded
C10_Witness ==
    /\ run > 1
    /\ pc = "done"
    /\ Len(first_result.trades) > 1
    /\ data_cache = data

\* the closing trades of a trade list, in order
closing_trades(trs) == SelectSeq(trs, has_pnl)

\* the length of the longest stretch of consecutive wins of a list of
\* closing trades
longest_winning_run(cs) ==
    LET stretches == {p \in (1..Len(cs)) \X (1..Len(cs)) :
                        /\ p[1] <= p[2]
                        /\ \A k \in p[1]..p[2] : RGt(cs[k].pnl, Zero)}
        lengths == {0} \cup {p[2] - p[1] + 1 : p \in stretches}
    IN  CHOOSE n \in lengths : \A m \in lengths : m <= n

\* the same for losses
longest_losing_run(cs) ==
    LET stretches == {p \in (1..Len(cs)) \X (1..Len(cs)) :
                        /\ p[1] <= p[2]
                        /\ \A k \in p[1]..p[2] : RLt(cs[k].pnl, Zero)}
        lengths == {0} \cup {p[2] - p[1] + 1 : p \in stretches}
    IN  CHOOSE n \in lengths : \A m \in lengths : m <= n

\* C11: consecutive_wins (resp. consecutive_losses) of the result is the
\* length of the longest stretch of consecutive closing trades, in order and
\* leaving the BUY records out, whose pnl is > 0 (resp. < 0).
C11_ConsecutiveRuns ==
    pc = "done" =>
        /\ result.metrics.consecutive_wins
              = longest_winning_run(closing_trades(result.trades))
        /\ result.metrics.consecutive_losses
              = longest_losing_run(closing_trades(result.trades))

\* the set of the positions of a list whose record has a pnl of the sign
\* given (1: pnl > 0, -1: pnl < 0)
pnl_positions(cs, sign) ==
    {k \in 1..Len(cs) : IF sign > 0 THEN cs[k].pnl.num > 0 ELSE cs[k].pnl.num < 0}

RECURSIVE sum_pnl(_, _)
sum_pnl(cs, K) ==
    IF K = {} THEN Zero
    ELSE LET k == CHOOSE x \in K : TRUE
         IN  RAdd(cs[k].pnl, sum_pnl(cs, K \ {k}))

\* C12: profit_factor is gross_profit / gross_loss whenever gross_loss > 0
\* (so 0 when there are losing trades and no winning one), and the infinity
\* sentinel whenever there is no losing trade, a run without closing trade
\* included; it is always one of the two (the division is never by zero).
C12_ProfitFactor ==
    pc = "done" =>
        LET cs == closing_trades(result.trades)
            winners == pnl_positions(cs, 1)
            losers == pnl_positions(cs, -1)
            gross_profit == sum_pnl(cs, winners)
            gross_loss == RNeg(sum_pnl(cs, losers))
        IN  /\ losers # {} =>
                  /\ RGt(gross_loss, Zero)
                  /\ result.profit_factor = RDiv(gross_profit, gross_loss)
            /\ (losers # {} /\ winners = {}) => result.profit_factor = Zero
            /\ losers = {} =>
                  /\ gross_loss = Zero
                  /\ result.profit_factor = Inf

\* a run ended with a winning and a losing trade
C12_Witness ==
    /\ pc = "done"
    /\ result.winning_trades > 0
    /\ result.losing_trades > 0
    /\ result.profit_factor # Inf
    /\ result.profit_factor # Zero

portfolio_values_of(curve) == [k \in 1..Len(curve) |-> curve[k].portfolio_value]

\* the fall from value j to value k of a curve, in percent of value j
fall_pct(vs, j, k) == RMul(RDiv(RSub(vs[j], vs[k]), vs[j]), R(100))

\* value j is the greatest of the values 1..k
is_peak_of(vs, j, k) == j <= k /\ \A m \in 1..k : RLe(vs[m], vs[j])

\* C13: max_drawdown is >= 0; it is 0 whenever the portfolio values of the
\* equity curve never decrease; it is the greatest fall from a running peak
\* (the greatest value from the first point to the current one) to the
\* current value.
C13_MaxDrawdown ==
    pc = "done" =>
        LET vs == portfolio_values_of(result.equity_curve)
            n == Len(vs)
            falls == {fall_pct(vs, p[1], p[2]) :
                        p \in {q \in (1..n) \X (1..n) : is_peak_of(vs, q[1], q[2])}}
        IN  /\ RLe(Zero, result.max_drawdown)
            /\ (\A k \in 1..(n - 1) : RLe(vs[k], vs[k + 1]))
                  => result.max_drawdown = Zero
            /\ result.max_drawdown \in falls
            /\ \A f \in falls : RLe(f, result.max_drawdown)

\* a run ended whose portfolio value rose above the first point and then
\* fell
C13_Witness ==
    /\ pc = "done"
    /\ RGt(result.max_drawdown, Zero)
    /\ \E k \in 1..Len(result.equity_curve) :
          RGt(result.equity_curve[k].portfolio_value,
              result.equity_curve[1].portfolio_value)

\* C14: total_trades is the number of records carrying a pnl, which are the
\* SELL records and never a BUY record; winning_trades and losing_trades
\* count those of pnl > 0 and < 0; win_rate is winning_trades / total_trades
\* * 100, and 0 when total_trades = 0; 0 <= win_rate <= 100 and
\* winning_trades + losing_trades <= total_trades.
C14_WinRate ==
    pc = "done" =>
        LET trs == result.trades
            closing == {k \in 1..Len(trs) : "pnl" \in DOMAIN trs[k]}
        IN  /\ result.total_trades = Cardinality(closing)
            /\ \A k \in 1..Len(trs) : k \in closing <=> trs[k].side = "SELL"
            /\ result.winning_trades
                  = Cardinality({k \in closing : RGt(trs[k].pnl, Zero)})
            /\ result.losing_trades
                  = Cardinality({k \in closing : RLt(trs[k].pnl, Zero)})
            /\ result.win_rate
                  = IF result.total_trades = 0 THEN Zero
                    ELSE RMul(Rat(result.winning_trades, result.total_trades), R(100))
            /\ RLe(Zero, result.win_rate)
            /\ RLe(result.win_rate, R(100))
            /\ result.winning_trades + result.losing_trades <= result.total_trades

\* a run ended with a winning trade and a trade at break-even
C14_Witness ==
    /\ pc = "done"
    /\ result.winning_trades = 1
    /\ result.losing_trades = 0
    /\ result.total_trades = 2
    /\ Len(result.trades) = 4

\* C15: in a run over a non-empty frame whose every actionable signal has
\* stop_loss equal to the price, no error is raised, no trade is executed
\* (cash and positions stay as they started), the equity curve has one
\* point per row, each with portfolio_value = initial_balance, and the
\* result has total_trades = 0.
C15_ZeroRiskRun ==
    /\ Len(data) > 0 => pc # "error"
    /\ pc \in {"loop", "done"} =>
          /\ trades = <<>>
          /\ balance = initial_balance
          /\ positions = <<>>
          /\ Len(equity_curve) = i
          /\ \A k \in 1..Len(equity_curve) :
                equity_curve[k].portfolio_value = initial_balance
          /\ (i > 0 /\ actionable(signal)) => trade_result = None
    /\ pc = "done" =>
          /\ i = Len(data)
          /\ result.total_trades = 0
          /\ result.trades = <<>>
          /\ result.equity_curve = equity_curve

\* a run ended whose last row carried a BUY with its stop at the price
C15_Witness ==
    /\ pc = "done"
    /\ Len(data) > 1
    /\ actionable(signal)
    /\ signal.action = "BUY"
    /\ signal.stop_loss = R(data[Len(data)].close)

\* C16: the result of every run executed on a worker thread, interleaved
\* at any point with the other run, is the result the same run produces
\* when it is executed alone.
C16_ParallelRunsIndependent ==
    \A w \in Workers :
        workers[w].pc = "done" =>
            workers[w].result = run_alone(workers[w].periods, config, initial_balance)

\* C17: final_balance is the cash balance after the last row plus, if a
\* position is still open, its quantity times the close of the last row,
\* and the cash balance alone otherwise; total_return is
\* (final_balance - initial_balance) / initial_balance * 100.
C17_FinalBalance ==
    pc = "done" =>
        /\ result.final_balance
              = IF IsOpen(positions)
                THEN RAdd(balance, RMul(positions[Symbol].quantity,
                                        R(data[Len(data)].close)))
                ELSE balance
        /\ result.total_return
              = RMul(RDiv(RSub(result.final_balance, initial_balance),
                          initial_balance),
                     R(100))

\* a run ended with a position open, the last close being another price
\* than its entry price
C17_Witness ==
    /\ pc = "done"
    /\ IsOpen(positions)
    /\ positions[Symbol].entry_price # R(data[Len(data)].close)
    /\ result.final_balance # balance
    /\ result.total_return # Zero

\* C18: within a run the trade list only grows at its end, and a record
\* once appended never changes in any field, its new_positions snapshot
\* included.
C18_RecordsImmutable ==
    [][IterationStep =>
          /\ Len(trades') >= Len(trades)
          /\ \A k \in 1..Len(trades) : trades'[k] = trades[k]]_vars

\* C19: a SELL decision processed while no position is open for the symbol
\* returns no record and leaves the cash balance, the positions and the
\* trade list as they were; no iteration ever leaves a position that is
\* not LONG.
C19_SellWhileFlatIsNoOp ==
    [][IterationStep =>
          /\ (actionable(signal') /\ signal'.action = "SELL" /\ ~IsOpen(positions))
                => /\ trade_result' = None
                   /\ balance' = balance
                   /\ positions' = positions
                   /\ trades' = trades
          /\ IsOpen(positions') => positions'[Symbol].side = "LONG"]_vars

\* a SELL was processed with no position open, after a round trip
C19_Witness ==
    /\ pc = "loop"
    /\ i > 0
    /\ actionable(signal)
    /\ signal.action = "SELL"
    /\ RGt(RAbs(RSub(R(data[i].close), signal_get(signal, "stop_loss", Zero))), Zero)
    /\ trade_result = None
    /\ ~IsOpen(positions)
    /\ Len(trades) = 2
    /\ trades[2].timestamp < data[i].timestamp

RMin(a, b) == IF RLe(a, b) THEN a ELSE b

\* C20: a BUY accepted while no position is open opens a LONG position of
\* quantity min(balance * risk_percentage / 100 / |price - stop_loss|,
\* 0.95 * balance / price) at entry_price = the row's close, with the
\* signal's stop_loss and take_profit; the cash decreases by exactly
\* quantity * price + quantity * price * commission_rate; one record is
\* appended, a BUY without pnl whose new_balance is the new cash balance.
C20_AcceptedBuy ==
    [][(IterationStep /\ actionable(signal') /\ signal'.action = "BUY"
          /\ ~IsOpen(positions) /\ trade_result' # None)
        => LET price == R(data[i + 1].close)
               opened == positions'[Symbol]
               quantity == opened.quantity
               notional == RMul(quantity, price)
               risk_quantity ==
                   RDiv(RDiv(RMul(balance, config.risk_percentage), R(100)),
                        RAbs(RSub(price, opened.stop_loss)))
               cap_quantity == RDiv(RMul(R95, balance), price)
               record == trades'[Len(trades')]
           IN  /\ DOMAIN positions' = {Symbol}
               /\ opened.side = "LONG"
               /\ quantity = RMin(risk_quantity, cap_quantity)
               /\ opened.entry_price = price
               /\ "stop_loss" \in DOMAIN signal'
                     => opened.stop_loss = signal'.stop_loss
               /\ "take_profit" \in DOMAIN signal'
                     => opened.take_profit = signal'.take_profit
               /\ balance'
                     = RSub(balance,
                            RAdd(notional, RMul(notional, config.commission_rate)))
               /\ Len(trades') = Len(trades) + 1
               /\ record = trade_result'
               /\ record.side = "BUY"
               /\ record.quantity = quantity
               /\ "pnl" \notin DOMAIN record
               /\ record.new_balance = balance']_vars

\* the first trade of a run was an accepted BUY, sized by the risk and
\* charged a commission, on a signal carrying its stop_loss and take_profit
C20_Witness ==
    /\ pc = "loop"
    /\ i > 0
    /\ actionable(signal)
    /\ signal.action = "BUY"
    /\ "stop_loss" \in DOMAIN signal
    /\ trade_result # None
    /\ trades = <<trade_result>>
    /\ RGt(trade_result.commission, Zero)
    /\ RLt(trade_result.value, RMul(R95, equity_curve[i].balance))
    /\ balance = trade_result.new_balance

\* the step is an iteration whose decision was a SELL that was accepted
accepted_sell_step ==
    /\ IterationStep
    /\ actionable(signal')
    /\ signal'.action = "SELL"
    /\ trade_result' # None

\* C21: a position that is open leaves the open state only by an accepted
\* SELL: on every row without one the position is still open afterwards,
\* with the same quantity and the same entry price, wherever the close lies
\* with respect to its stop_loss and take_profit.
C21_ExitOnlyBySell ==
    [][(IterationStep /\ IsOpen(positions) /\ ~accepted_sell_step)
        => /\ IsOpen(positions')
           /\ positions'[Symbol].quantity = positions[Symbol].quantity
           /\ positions'[Symbol].entry_price = positions[Symbol].entry_price]_vars

\* C22: the equity point of a row records the state the row found, before
\* its decision is applied: its balance is the cash balance, its
\* portfolio_value the cash balance plus quantity * close when a position is
\* open at that moment, and the cash balance otherwise; a trade executed on
\* a row shows first in the point of the next row, whose balance is the
\* new_balance of that trade.
C22_EquityPointBeforeDecision ==
    [][IterationStep =>
          LET point == equity_curve'[Len(equity_curve')]
              close == R(data[i + 1].close)
          IN  /\ Len(equity_curve') = Len(equity_curve) + 1
              /\ point.timestamp = data[i + 1].timestamp
              /\ point.balance = balance
              /\ point.portfolio_value
                    = IF IsOpen(positions)
                      THEN RAdd(balance, RMul(positions[Symbol].quantity, close))
                      ELSE balance
              /\ (i > 0 /\ trade_result # None)
                    => /\ point.balance = trade_result.new_balance
                       /\ equity_curve[i].balance # trade_result.new_balance
                             => point.balance # equity_curve[i].balance]_vars

\* the row after a BUY was processed: its point shows the cash the BUY left
\* and values the position at the row's close
C22_Witness ==
    /\ pc = "loop"
    /\ i > 1
    /\ Len(trades) > 0
    /\ trades[Len(trades)].timestamp = data[i - 1].timestamp
    /\ trades[Len(trades)].side = "BUY"
    /\ equity_curve[i].balance = trades[Len(trades)].new_balance
    /\ equity_curve[i - 1].balance # equity_curve[i].balance
    /\ equity_curve[i].portfolio_value # equity_curve[i].balance

\* the sum of the last n closes of the rows 1..k of a frame
RECURSIVE sum_last_closes(_, _, _)
sum_last_closes(d, k, n) ==
    IF n = 0 THEN 0 ELSE d[k].close + sum_last_closes(d, k - 1, n - 1)

\* C23: on the rows 1..i the generator emits nothing when i < 20;
\* otherwise, fast being the mean of the last 20 closes, slow the mean of
\* the last 50 closes (fast itself when i < 50) and price the close of row
\* i, it emits BUY with stop_loss 0.98 * price and take_profit 1.04 * price
\* exactly when price > fast > slow, SELL with stop_loss 1.02 * price and
\* take_profit 0.96 * price exactly when price < fast < slow, and nothing in
\* every other case.
C23_ReferenceSignal ==
    (pc = "loop" /\ i > 0) =>
        LET price == data[i].close
            sum_fast == sum_last_closes(data, i, FastWindow)
            sum_slow == sum_last_closes(data, i, SlowWindow)
            above_fast == FastWindow * price > sum_fast
            below_fast == FastWindow * price < sum_fast
            fast_above_slow ==
                i >= SlowWindow /\ SlowWindow * sum_fast > FastWindow * sum_slow
            fast_below_slow ==
                i >= SlowWindow /\ SlowWindow * sum_fast < FastWindow * sum_slow
        IN  IF i < FastWindow THEN signal = None
            ELSE /\ (above_fast /\ fast_above_slow) <=>
                        (signal # None /\ signal.action = "BUY")
                 /\ (below_fast /\ fast_below_slow) <=>
                        (signal # None /\ signal.action = "SELL")
                 /\ (signal # None /\ signal.action = "BUY") =>
                        /\ signal.stop_loss = Rat(98 * price, 100)
                        /\ signal.take_profit = Rat(104 * price, 100)
                 /\ (signal # None /\ signal.action = "SELL") =>
                        /\ signal.stop_loss = Rat(102 * price, 100)
                        /\ signal.take_profit = Rat(96 * price, 100)
                 /\ signal = None \/ signal.action \in {"BUY", "SELL"}

\* a SELL was emitted on a row whose close is under the fast mean, the fast
\* mean under the slow mean
C23_Witness ==
    /\ pc = "loop"
    /\ i > SlowWindow
    /\ signal # None
    /\ signal.action = "SELL"
    /\ data[i - 1].close # data[i].close

\* the points of a curve all have the same portfolio_value
constant_curve(curve) ==
    \A j, k \in 1..Len(curve) : curve[j].portfolio_value = curve[k].portfolio_value

\* C24: a run over a single row, and a run whose equity curve has the same
\* portfolio_value at every point, does not fail in
\* _calculate_backtest_metrics, and its result has sharpe_ratio = 0 and
\* max_drawdown = 0.
C24_DegenerateHistories ==
    (pc \in {"done", "error"} /\ Len(data) > 0
       /\ (Len(data) = 1 \/ constant_curve(equity_curve)))
    => /\ pc = "done"
       /\ result.sharpe_ratio = Zero
       /\ result.max_drawdown = Zero

----------------------------------------------------------------------------
(* RiskManager.validate_new_trade of src/services/trading_engine.py, on     *)
(* the rows its queries read                                                *)

AccountId == 1

Accounts ==
    {[id |-> AccountId, status |-> st, balance |-> R(100), max_positions |-> m] :
        st \in {"active", "paused"}, m \in {1, 2}}

TradeSymbols == {"BTCUSDT", "ETHUSDT"}

\* rows of the positions table: of this account and of another one
PositionRows ==
    {[account_id |-> AccountId, symbol |-> "BTCUSDT", status |-> "open"],
     [account_id |-> AccountId, symbol |-> "ETHUSDT", status |-> "open"],
     [account_id |-> AccountId, symbol |-> "BTCUSDT", status |-> "closed"],
     [account_id |-> 2, symbol |-> "BTCUSDT", status |-> "open"]}

\* rows of the trades table; created_today is created_at >= today
TradeRows ==
    {[account_id |-> AccountId, side |-> "BUY", quantity |-> R(1), price |-> R(100),
      fee |-> Zero, status |-> "filled", created_today |-> TRUE],
     [account_id |-> AccountId, side |-> "SELL", quantity |-> R(1), price |-> R(50),
      fee |-> Zero, status |-> "filled", created_today |-> TRUE],
     [account_id |-> AccountId, side |-> "SELL", quantity |-> R(1), price |-> R(50),
      fee |-> Zero, status |-> "pending", created_today |-> TRUE],
     [account_id |-> AccountId, side |-> "SELL", quantity |-> R(1), price |-> R(50),
      fee |-> Zero, status |-> "filled", created_today |-> FALSE]}

Tables(rows) == UNION {Seqs(rows, n) : n \in 0..MaxRows}

\* lines 408-411: the placeholder returns 0 for every trade
calculate_trade_pnl(trade) == Zero

\* lines 370-373: Position.query.filter_by(account_id, status='open').count()
open_positions_count(table, acc) ==
    Cardinality({k \in 1..Len(table) :
                    table[k].account_id = acc.id /\ table[k].status = "open"})

\* lines 380-384: today's filled trades of the account
daily_trades_of(table, acc) ==
    SelectSeq(table, LAMBDA t : /\ t.account_id = acc.id
                                /\ t.created_today
                                /\ t.status = "filled")

\* line 386
daily_pnl_of(table, acc) ==
    LET daily_trades == daily_trades_of(table, acc)
    IN  RSum([k \in 1..Len(daily_trades) |-> calculate_trade_pnl(daily_trades[k])])

\* line 387: 5% daily loss limit
R005 == Rat(5, 100)
daily_loss_limit_of(acc) == RMul(acc.balance, R005)

\* lines 393-397: the account's open position in the symbol, if any
existing_position(table, acc, sym) ==
    \E k \in 1..Len(table) : /\ table[k].account_id = acc.id
                             /\ table[k].symbol = sym
                             /\ table[k].status = "open"

\* lines 362-406
validate_new_trade(acc, sym, ptable, ttable) ==
    IF acc.status # "active"
    THEN [allowed |-> FALSE, reason |-> "Account not active"]
    ELSE IF open_positions_count(ptable, acc) >= acc.max_positions
    THEN [allowed |-> FALSE, reason |-> "Maximum positions limit reached"]
    ELSE IF RLt(daily_pnl_of(ttable, acc), RNeg(daily_loss_limit_of(acc)))
    THEN [allowed |-> FALSE, reason |-> "Daily loss limit exceeded"]
    ELSE IF existing_position(ptable, acc, sym)
    THEN [allowed |-> FALSE, reason |-> "Already have open position"]
    ELSE [allowed |-> TRUE, reason |-> "Trade validation passed"]

\* the engine is not running a backtest
engine_idle ==
    /\ feed = <<>>
    /\ data_cache = <<>>
    /\ config = None
    /\ initial_balance = Zero
    /\ run = 1
    /\ pc = "start"
    /\ data = <<>>
    /\ i = 0
    /\ balance = Zero
    /\ positions = <<>>
    /\ trades = <<>>
    /\ equity_curve = <<>>
    /\ historical_data = <<>>
    /\ signal = None
    /\ trade_result = None
    /\ result = None
    /\ first_result = None
    /\ rng = 0
    /\ workers = <<>>

limiter_vars == <<max_calls, time_window, calls, clock, started>>

InitRisk ==
    /\ engine_idle
    /\ account \in Accounts
    /\ trade_symbol \in TradeSymbols
    /\ position_table \in Tables(PositionRows)
    /\ trade_table \in Tables(TradeRows)
    /\ risk_check = None
    /\ max_calls = 0
    /\ time_window = 0
    /\ calls = <<>>
    /\ clock = 0
    /\ started = <<>>

\* trading_engine.py line 65: the engine asks the risk manager
ValidateNewTrade ==
    /\ risk_check = None
    /\ risk_check' = validate_new_trade(account, trade_symbol, position_table,
                                        trade_table)
    /\ UNCHANGED <<run_vars, parallel_vars, limiter_vars>>
    /\ UNCHANGED <<account, trade_symbol, position_table, trade_table>>

NextRisk == ValidateNewTrade

SpecRisk == InitRisk /\ [][NextRisk]_vars

\* the profit-and-loss of today's filled trades: what the filled SELL rows
\* brought in less what the filled BUY rows cost and the fees, when as much
\* was sold as bought
todays_pnl(table, acc) ==
    LET daily_trades == daily_trades_of(table, acc)
        side_rows(sd) == SelectSeq(daily_trades, LAMBDA t : t.side = sd)
        notional(ts) == RSum([k \in 1..Len(ts) |-> RMul(ts[k].quantity, ts[k].price)])
        fees == RSum([k \in 1..Len(daily_trades) |-> daily_trades[k].fee])
    IN  IF Len(side_rows("BUY")) = Len(side_rows("SELL"))
        THEN RSub(RSub(notional(side_rows("SELL")), notional(side_rows("BUY"))), fees)
        ELSE Zero

\* C25: validate_new_trade disallows the trade when today's filled trades
\* lost more than 5% of the account balance, when the account is not
\* active, when the open positions have reached max_positions, and when an
\* open position exists for the symbol
C25_ValidateNewTrade ==
    risk_check # None =>
        ((\/ RLt(todays_pnl(trade_table, account),
                 RNeg(RMul(account.balance, Rat(5, 100))))
          \/ account.status # "active"
          \/ open_positions_count(position_table, account) >= account.max_positions
          \/ existing_position(position_table, account, trade_symbol))
            => ~risk_check.allowed)

\* the realized_pnl of the SELL records of a trade list, summed
realized_pnl_sum(trs) ==
    LET sells == SelectSeq(trs, LAMBDA t : t.side = "SELL")
    IN  RSum([k \in 1..Len(sells) |-> sells[k].pnl])

\* C26: a run that ends with no open position changed the cash by the sum
\* of the realized_pnl of its SELL records:
\* final_balance - initial_balance = sum of pnl over the SELL records
C26_AccountingIdentity ==
    (pc = "done" /\ ~IsOpen(positions))
        => RSub(result.final_balance, initial_balance)
             = realized_pnl_sum(result.trades)

\* the number of records of one side in a trade list
side_count(trs, sd) == Len(SelectSeq(trs, LAMBDA t : t.side = sd))

\* C27: the trade list follows the cycle FLAT -> OPEN -> FLAT: the sides
\* alternate BUY, SELL, BUY, ... starting with BUY, no two records carry
\* the timestamp of the same bar, and BUY records minus SELL records is 1
\* while a position is open and 0 while flat
C27_FlatOpenCycle ==
    /\ \A k \in 1..Len(trades) :
          trades[k].side = (IF k % 2 = 1 THEN "BUY" ELSE "SELL")
    /\ \A j, k \in 1..Len(trades) :
          j # k => trades[j].timestamp # trades[k].timestamp
    /\ side_count(trades, "BUY") - side_count(trades, "SELL")
          = (IF IsOpen(positions) THEN 1 ELSE 0)

\* the rows of the current frame that come before the slow window is full
first_bars == 1..(IF Len(data) < SlowWindow THEN Len(data) ELSE SlowWindow - 1)

\* C28: the reference generator emits no signal on a prefix of fewer than
\* 50 bars, so no trade record carries the timestamp of one of the first
\* 49 bars and each of the first 50 equity points has
\* portfolio_value = initial_balance
C28_NoSignalBeforeSlowWindow ==
    /\ (pc = "loop" /\ 0 < i /\ i < SlowWindow) => signal = None
    /\ \A k \in 1..Len(trades) :
          trades[k].timestamp \notin {data[j].timestamp : j \in first_bars}
    /\ \A k \in 1..Len(equity_curve) :
          k <= SlowWindow => equity_curve[k].portfolio_value = initial_balance

\* a row between the 20th and the 49th closed above the fast average (a BUY
\* but for the slow average) and was left without a signal
C28_Witness ==
    /\ pc = "loop"
    /\ FastWindow < i /\ i < SlowWindow
    /\ data[i].close * FastWindow
          > SumInt([k \in 1..FastWindow |-> data[i - FastWindow + k].close])
    /\ signal = None
    /\ Len(equity_curve) = i

\* C29: when the run is over, final_balance is the portfolio_value of the
\* last equity point if no trade was accepted on the last bar, and that
\* portfolio_value minus the commission of the trade if one was accepted
C29_FinalBalanceAndLastPoint ==
    (pc = "done" /\ Len(data) > 0) =>
        LET last_point == equity_curve[Len(equity_curve)]
        IN  result.final_balance
              = (IF trade_result # None
                 THEN RSub(last_point.portfolio_value, trade_result.commission)
                 ELSE last_point.portfolio_value)

----------------------------------------------------------------------------
(* RateLimiter of src/services/exchange_api.py: one limiter wraps the       *)
(* methods of an exchange class (lines 448-451), which are called one       *)
(* after the other. Time is counted in whole seconds; the wrapped function  *)
(* returns at once.                                                         *)

\* the limits a limiter is built with (line 448 builds 20 calls per 60 s)
Limits == {[max_calls |-> m, time_window |-> w] : m \in {1, 2}, w \in {2, 3}}

risk_vars == <<account, trade_symbol, position_table, trade_table, risk_check>>

InitLimiter ==
    /\ engine_idle
    /\ account = None
    /\ trade_symbol = ""
    /\ position_table = <<>>
    /\ trade_table = <<>>
    /\ risk_check = None
    /\ \E l \in Limits : max_calls = l.max_calls /\ time_window = l.time_window
    /\ calls = <<>>
    /\ clock = 0
    /\ started = <<>>

\* line 431: the calls of the last time_window seconds are kept
recent_calls(cs, now, window) == SelectSeq(cs, LAMBDA call_time : now - call_time < window)

\* lines 433-437: the time the wrapper sleeps before it goes on
sleep_time_of(kept, now, limit, window) ==
    IF Len(kept) >= limit
    THEN LET sleep_time == window - (now - kept[1])
         IN  IF sleep_time > 0 THEN sleep_time ELSE 0
    ELSE 0

\* lines 428-440: one call of a wrapped method, made `idle` seconds after the
\* previous one returned; line 439 records the time read at line 429, the
\* wrapped function starts when the sleep is over
WrappedCall ==
    \E idle \in 0..time_window :
        LET now == clock + idle
            kept == recent_calls(calls, now, time_window)
            slept == sleep_time_of(kept, now, max_calls, time_window)
        IN  /\ now <= MaxClock
            /\ calls' = Append(kept, now)
            /\ clock' = now + slept
            /\ started' = Append(started, now + slept)
            /\ UNCHANGED <<max_calls, time_window>>
            /\ UNCHANGED <<run_vars, parallel_vars, risk_vars>>

NextLimiter == WrappedCall

SpecLimiter == InitLimiter /\ [][NextLimiter]_vars

\* the wrapped calls that started in the time_window seconds from time t on
started_within(t) ==
    {k \in 1..Len(started) : t <= started[k] /\ started[k] < t + time_window}

\* C30: at most max_calls wrapped calls start executing within any time
\* interval of length time_window
C30_RateLimit ==
    \A j \in 1..Len(started) : Cardinality(started_within(started[j])) <= max_calls

====
